---- MODULE Spec2Model ----
(***************************************************************************)
(* Model of ball-tracking/scripts/export_model.py: the export-and-relocate *)
(* workflow of export_model and the filesystem calls it is built from      *)
(* (Path.exists, shutil.rmtree, Path.mkdir, shutil.move, Path.rglob).      *)
(*                                                                         *)
(* A path is a sequence of names below a common root; the working          *)
(* directory of the script is <<"scripts">>.  A filesystem is a function   *)
(* from the paths that exist to their nodes.                               *)
(***************************************************************************)
EXTENDS Integers, Sequences, FiniteSets, TLC

VARIABLES cfg, fs, pc, run, trace, total, reported, fs0, held, prev

vars == <<cfg, fs, pc, run, trace, total, reported, fs0, held, prev>>

(***************************************************************************)
(* Bounds                                                                  *)
(***************************************************************************)
MaxUnits == 2      \* file sizes are 1..MaxUnits times Unit
MaxNest  == 2      \* nesting depth of the deepest exported file
MaxRuns  == 2      \* successive invocations of the script

Unit     == 131072 \* bytes per size unit (128 KiB)
MiB  == 1024 * 1024
Sizes == {k * Unit : k \in 1..MaxUnits}

NoTotal == 0 - 1

(***************************************************************************)
(* Nodes and paths                                                         *)
(***************************************************************************)
Dir == [kind |-> "dir", size |-> 0, to |-> "none"]

File(s) == [kind |-> "file", size |-> s, to |-> "none"]

\* a symbolic link; to is what it resolves to, size the size of that target
Link(t, s) == [kind |-> "link", size |-> s, to |-> t]

Root == << >>

Cwd == <<"scripts">>

Parent(p) == SubSeq(p, 1, Len(p) - 1)

IsPrefix(p, q) == Len(p) <= Len(q) /\ SubSeq(q, 1, Len(p)) = p

Under(f, p) == {q \in DOMAIN f : IsPrefix(p, q)}

StrictlyUnder(f, p) == {q \in DOMAIN f : IsPrefix(p, q) /\ q # p}

Prefixes(p) == {SubSeq(p, 1, n) : n \in 0..Len(p)}

IsLinkP(f, p) == p \in DOMAIN f /\ f[p].kind = "link"

\* os.path.isdir / Path.is_dir: follows symbolic links
IsDirP(f, p) ==
    /\ p \in DOMAIN f
    /\ \/ f[p].kind = "dir"
       \/ f[p].kind = "link" /\ f[p].to = "dir"

\* Path.is_file: follows symbolic links
IsFileP(f, p) ==
    /\ p \in DOMAIN f
    /\ \/ f[p].kind = "file"
       \/ f[p].kind = "link" /\ f[p].to = "file"

\* Path.exists: follows symbolic links, a dangling link does not exist
ExistsP(f, p) ==
    /\ p \in DOMAIN f
    /\ ~(f[p].kind = "link" /\ f[p].to = "none")

Restrict(f, S) == [p \in S |-> f[p]]

\* the tree below at, by relative path
TreeAt(f, at) ==
    LET rel == {SubSeq(p, Len(at) + 1, Len(p)) : p \in StrictlyUnder(f, at)}
    IN  [q \in rel |-> f[at \o q]]

Ok(f) == [ok |-> TRUE, fs |-> f]

Err(f) == [ok |-> FALSE, fs |-> f]

\* rmtree applied to the parent of the path it was given
RmTreeOfParent(f, p) ==
    IF p \in DOMAIN f /\ f[p].kind = "dir"
    THEN Ok(Restrict(f, DOMAIN f \ Under(f, Parent(p))))
    ELSE Err(f)

(***************************************************************************)
(* shutil.rmtree(path): refuses a symbolic link and a non-directory,       *)
(* otherwise removes the directory and everything below it.                *)
(***************************************************************************)
RmTree(f, p) ==
    IF p \in DOMAIN f /\ f[p].kind = "dir"
    THEN Ok(Restrict(f, DOMAIN f \ Under(f, p)))
    ELSE Err(f)

(***************************************************************************)
(* Path.mkdir(parents=True, exist_ok=True): creates the directory and its  *)
(* missing ancestors; fails, creating nothing, when the path or one of its *)
(* ancestors exists and is not a directory.                                *)
(***************************************************************************)
MkdirParents(f, p) ==
    IF \E q \in Prefixes(p) : q \in DOMAIN f /\ ~IsDirP(f, q)
    THEN Err(f)
    ELSE Ok([q \in DOMAIN f \cup Prefixes(p) |->
                IF q \in DOMAIN f THEN f[q] ELSE Dir])

(***************************************************************************)
(* The subtree at src re-rooted at dst (src itself is left in place).      *)
(***************************************************************************)
Grafted(f, src, dst) ==
    LET from == Under(f, src)
        img(q) == dst \o SubSeq(q, Len(src) + 1, Len(q))
        to == {img(q) : q \in from}
    IN  [p \in DOMAIN f \cup to |->
            IF p \in to
            THEN f[src \o SubSeq(p, Len(dst) + 1, Len(p))]
            ELSE f[p]]

(***************************************************************************)
(* os.rename(src, dst).  xdev: src and dst are on different volumes.       *)
(***************************************************************************)
Rename(f, src, dst, xdev) ==
    IF src \notin DOMAIN f THEN Err(f)
    ELSE IF src = dst THEN Ok(f)
    ELSE IF ~IsDirP(f, Parent(dst)) THEN Err(f)
    ELSE IF IsPrefix(src, dst) THEN Err(f)
    ELSE IF xdev THEN Err(f)
    ELSE IF /\ dst \in DOMAIN f
            /\ IF f[src].kind = "dir"
               THEN f[dst].kind # "dir" \/ StrictlyUnder(f, dst) # {}
               ELSE f[dst].kind = "dir"
         THEN Err(f)
    ELSE LET g == Restrict(f, DOMAIN f \ Under(f, dst))
             h == Grafted(g, src, dst)
         IN  Ok(Restrict(h, DOMAIN h \ Under(g, src)))

(***************************************************************************)
(* shutil.copytree(src, dst, symlinks=True): os.makedirs(dst) first, which *)
(* fails when dst exists and creates the missing ancestors of dst.         *)
(***************************************************************************)
CopyTree(f, src, dst) ==
    IF dst \in DOMAIN f THEN Err(f)
    ELSE LET m == MkdirParents(f, Parent(dst))
         IN  IF m.ok THEN Ok(Grafted(m.fs, src, dst)) ELSE Err(f)

\* a move that copies the tree and leaves the source in place
MoveAsCopy(f, src, dst, xdev) ==
    IF IsDirP(f, src) /\ ~IsPrefix(src, dst) THEN CopyTree(f, src, dst) ELSE Err(f)

(***************************************************************************)
(* shutil.move(src, dst): into dst when dst is a directory, else onto dst; *)
(* os.rename first, and when that fails copy-then-delete.                  *)
(***************************************************************************)
Move(f, src, dst, xdev) ==
    LET nested == IsDirP(f, dst)
        real == IF nested THEN dst \o <<src[Len(src)]>> ELSE dst
        r == Rename(f, src, real, xdev)
        c == CopyTree(f, src, real)
    IN  IF nested /\ src = dst /\ ~IsLinkP(f, src) THEN Ok(f)
        ELSE IF nested /\ ExistsP(f, real) THEN Err(f)
        ELSE IF r.ok THEN r
        ELSE IF IsLinkP(f, src)
             THEN IF real \in DOMAIN f \/ ~IsDirP(f, Parent(real))
                  THEN Err(f)
                  ELSE Ok([p \in (DOMAIN f \ {src}) \cup {real} |->
                              IF p = real THEN f[src] ELSE f[p]])
        ELSE IF IsDirP(f, src)
             THEN IF IsPrefix(src, dst) THEN Err(f)
                  ELSE IF c.ok THEN RmTree(c.fs, src)
                  ELSE Err(f)
        ELSE IF src \notin DOMAIN f \/ ~IsDirP(f, Parent(real)) \/ IsDirP(f, real)
             THEN Err(f)
        ELSE Ok([p \in (DOMAIN f \ {src}) \cup {real} |->
                    IF p = real THEN f[src] ELSE f[p]])

(***************************************************************************)
(* sum(f.stat().st_size for f in output_dir.rglob("*") if f.is_file()):    *)
(* rglob yields every entry below the directory without descending into    *)
(* symbolic links; is_file and stat both follow a symbolic link.           *)
(***************************************************************************)
RECURSIVE SumSizes(_, _)
SumSizes(f, S) ==
    IF S = {} THEN 0
    ELSE LET p == CHOOSE x \in S : TRUE
         IN  f[p].size + SumSizes(f, S \ {p})

Counted(f, out) == {q \in StrictlyUnder(f, out) : IsFileP(f, q)}

TotalSize(f, out) == SumSizes(f, Counted(f, out))

\* f"{total_size / 1024 / 1024:.1f}": tenths of a MiB, ties to even
TenthsMB(t) ==
    LET q == (t * 10) \div MiB
        r == (t * 10) % MiB
    IN  IF 2 * r > MiB \/ (2 * r = MiB /\ q % 2 = 1) THEN q + 1 ELSE q

(***************************************************************************)
(* Command line (argparse defaults) and the external framework             *)
(***************************************************************************)
DefaultModel == "yolo26s"

\* --output default "../resources/public/model", relative to scripts/
DefaultOutput == <<"resources", "public", "model">>

\* f"{model_name}_web_model"
WebModelName(m) == IF m = "yolo26s" THEN "yolo26s_web_model" ELSE "web_model"

\* export_dir = Path(f"{model_name}_web_model"), relative to the working directory
ExportDir(m) == Cwd \o <<WebModelName(m)>>

OutputDirs ==
    { DefaultOutput,
      ExportDir(DefaultModel),
      ExportDir(DefaultModel) \o <<"shards">>,
      Cwd \o <<"model">>,
      Cwd }

Nest(k) == [i \in 1..k |-> "shards"]

\* a tree the framework's exporter writes: relative path -> node
ExportTree(s1, s2, k, l) ==
    LET dirs == {SubSeq(Nest(k), 1, n) : n \in 1..k}
        deep == Nest(k) \o <<"g1.bin">>
        link == IF l = "absent" THEN {} ELSE {<<"latest">>}
    IN  [p \in {<<"model.json">>, deep} \cup dirs \cup link |->
            IF p = <<"model.json">> THEN File(s1)
            ELSE IF p = deep THEN File(s2)
            ELSE IF p = <<"latest">> THEN Link(l, IF l = "file" THEN s1 ELSE 0)
            ELSE Dir]

ExportTrees ==
    { ExportTree(s1, s2, k, l) :
        s1 \in Sizes, s2 \in Sizes, k \in 0..MaxNest,
        l \in {"absent", "file", "dir", "none"} }

NoTree == [p \in {} |-> Dir]

\* what YOLO(...) and model.export(format="tfjs") do in this environment
Frameworks ==
    {[loadOk |-> FALSE, exportOk |-> FALSE, dirName |-> "none", tree |-> NoTree]}
    \cup
    {[loadOk |-> TRUE, exportOk |-> FALSE, dirName |-> "none", tree |-> NoTree]}
    \cup
    [loadOk : {TRUE}, exportOk : {TRUE},
     dirName : {WebModelName(DefaultModel), "yolo26s_tfjs"},
     tree : ExportTrees]

\* tree placed at path at, replacing what was there
Placed(f, at, tree) ==
    LET keep == DOMAIN f \ Under(f, at)
        new == {at} \cup {at \o q : q \in DOMAIN tree}
    IN  [p \in keep \cup new |->
            IF p \in keep THEN f[p]
            ELSE IF p = at THEN Dir
            ELSE tree[SubSeq(p, Len(at) + 1, Len(p))]]

(***************************************************************************)
(* Filesystems the script can be started in                                *)
(***************************************************************************)
Script == Cwd \o <<"export_model.py">>

Base ==
    (Root :> Dir) @@ (Cwd :> Dir) @@ (Script :> File(Unit))

\* content of an earlier, unrelated use of a directory
StaleTree(s, n) ==
    IF n = 1
    THEN (<<"old.bin">> :> File(s)) @@ (<<"model.json">> :> File(s))
    ELSE (<<"old.bin">> :> File(s)) @@ (<<"yolo26s_web_model">> :> Dir)
         @@ (<<"yolo26s_web_model", "old.bin">> :> File(s))

StaleTrees == {StaleTree(s, n) : s \in Sizes, n \in {1, 2}}

Resources == (<<"resources">> :> Dir) @@ (<<"resources", "README">> :> File(Unit))

Public ==
    (<<"resources", "public">> :> Dir)
    @@ (<<"resources", "public", "index.html">> :> File(Unit))

PreStates(out) ==
    IF out = DefaultOutput
    THEN { Base,
           Base @@ (<<"resources">> :> File(Unit)),
           Base @@ Resources,
           Base @@ Resources @@ (<<"resources", "public">> :> File(Unit)),
           Base @@ Resources @@ Public,
           Base @@ Resources @@ Public @@ (out :> File(Unit)),
           Base @@ Resources @@ Public @@ (out :> Link("dir", 0)),
           Base @@ Resources @@ Public @@ (out :> Link("none", 0)) }
         \cup { Placed(Base @@ Resources @@ Public, out, t) : t \in StaleTrees }
    ELSE { Base }
         \cup { Placed(Base, ExportDir(DefaultModel), t) : t \in StaleTrees }
         \cup { Placed(Base, Cwd \o <<"model">>, t) : t \in StaleTrees }

NoResult == [ok |-> FALSE, tree |-> NoTree, total |-> NoTotal]

TypeOK ==
    /\ pc \in {"load", "export", "remove", "mkdir", "move", "sum", "report",
               "done", "failed"}
    /\ run \in 1..MaxRuns
    /\ total \in Nat \cup {NoTotal}
    /\ cfg.out \in OutputDirs
    /\ Root \in DOMAIN fs

Init ==
    /\ cfg \in [model : {DefaultModel}, out : OutputDirs,
                fw : Frameworks, xdev : BOOLEAN]
    /\ fs \in PreStates(cfg.out)
    /\ pc = "load"
    /\ run = 1
    /\ trace = << >>
    /\ total = NoTotal
    /\ reported = << >>
    /\ fs0 = fs
    /\ held = NoTree
    /\ prev = NoResult

(***************************************************************************)
(* export_model, one action per statement                                  *)
(***************************************************************************)
Fail == pc' = "failed"

\* one executed statement and whether it returned normally
Step(name, ok) == [step |-> name, ok |-> ok]

\* the output directory is cleared before the model is loaded
LoadAfterCleaning ==
    /\ pc = "load"
    /\ trace' = Append(trace, Step("load", cfg.fw.loadOk))
    /\ fs' = IF ExistsP(fs, cfg.out) THEN RmTree(fs, cfg.out).fs ELSE fs
    /\ IF cfg.fw.loadOk THEN pc' = "export" ELSE Fail
    /\ UNCHANGED <<cfg, run, total, reported, fs0, held, prev>>

\* model = YOLO(f"{model_name}.pt")
Load ==
    /\ pc = "load"
    /\ trace' = Append(trace, Step("load", cfg.fw.loadOk))
    /\ IF cfg.fw.loadOk THEN pc' = "export" ELSE Fail
    /\ UNCHANGED <<cfg, fs, run, total, reported, fs0, held, prev>>

\* a failed export is not noticed and the run goes on
ExportIgnoringFailure ==
    /\ pc = "export"
    /\ trace' = Append(trace, Step("export", cfg.fw.exportOk))
    /\ fs' = IF cfg.fw.exportOk
             THEN Placed(fs, Cwd \o <<cfg.fw.dirName>>, cfg.fw.tree)
             ELSE fs
    /\ pc' = "remove"
    /\ held' = TreeAt(fs', ExportDir(cfg.model))
    /\ UNCHANGED <<cfg, run, total, reported, fs0, prev>>

\* model.export(format="tfjs")
Export ==
    /\ pc = "export"
    /\ trace' = Append(trace, Step("export", cfg.fw.exportOk))
    /\ IF cfg.fw.exportOk
       THEN /\ fs' = Placed(fs, Cwd \o <<cfg.fw.dirName>>, cfg.fw.tree)
            /\ pc' = "remove"
       ELSE /\ Fail
            /\ UNCHANGED fs
    /\ held' = TreeAt(fs', ExportDir(cfg.model))
    /\ UNCHANGED <<cfg, run, total, reported, fs0, prev>>

\* if output_dir.exists(): shutil.rmtree(output_dir)
RemoveExisting ==
    /\ pc = "remove"
    /\ IF ExistsP(fs, cfg.out)
       THEN LET r == RmTree(fs, cfg.out)
            IN  /\ trace' = Append(trace, Step("rmtree", r.ok))
                /\ fs' = r.fs
                /\ IF r.ok THEN pc' = "mkdir" ELSE Fail
       ELSE /\ pc' = "mkdir"
            /\ UNCHANGED <<fs, trace>>
    /\ UNCHANGED <<cfg, run, total, reported, fs0, held, prev>>

\* output_dir.parent.mkdir(parents=True, exist_ok=True)
MakeParent ==
    /\ pc = "mkdir"
    /\ LET r == MkdirParents(fs, Parent(cfg.out))
       IN  /\ fs' = r.fs
           /\ trace' = Append(trace, Step("mkdir", r.ok))
           /\ IF r.ok THEN pc' = "move" ELSE Fail
    /\ UNCHANGED <<cfg, run, total, reported, fs0, held, prev>>

\* an error of the move is swallowed and the run goes on
MoveExportSwallowing ==
    /\ pc = "move"
    /\ LET r == Move(fs, ExportDir(cfg.model), cfg.out, cfg.xdev)
       IN  /\ fs' = r.fs
           /\ trace' = Append(trace, Step("move", r.ok))
    /\ pc' = "sum"
    /\ UNCHANGED <<cfg, run, total, reported, fs0, held, prev>>

\* shutil.move(export_dir, output_dir)
MoveExport ==
    /\ pc = "move"
    /\ LET r == Move(fs, ExportDir(cfg.model), cfg.out, cfg.xdev)
       IN  /\ fs' = r.fs
           /\ trace' = Append(trace, Step("move", r.ok))
           /\ IF r.ok THEN pc' = "sum" ELSE Fail
    /\ UNCHANGED <<cfg, run, total, reported, fs0, held, prev>>

\* total_size = sum(...)
SumStep ==
    /\ pc = "sum"
    /\ total' = TotalSize(fs, cfg.out)
    /\ pc' = "report"
    /\ trace' = Append(trace, Step("sum", TRUE))
    /\ UNCHANGED <<cfg, fs, run, reported, fs0, held, prev>>

\* print(f"Model exported to ..."); print(f"Total size: ... MB")
Report ==
    /\ pc = "report"
    /\ reported' = <<[dir |-> cfg.out, tenthsMB |-> TenthsMB(total)]>>
    /\ pc' = "done"
    /\ trace' = Append(trace, Step("report", TRUE))
    /\ UNCHANGED <<cfg, fs, run, total, fs0, held, prev>>

\* the script is started again, from scripts/, with the same arguments
Invoke ==
    /\ pc \in {"done", "failed"}
    /\ run < MaxRuns
    /\ IsDirP(fs, Cwd)
    /\ IsFileP(fs, Script)
    /\ run' = run + 1
    /\ pc' = "load"
    /\ trace' = << >>
    /\ total' = NoTotal
    /\ reported' = << >>
    /\ fs0' = fs
    /\ held' = NoTree
    /\ prev' = [ok |-> pc = "done",
                tree |-> Restrict(fs, Under(fs, cfg.out)),
                total |-> total]
    /\ UNCHANGED <<cfg, fs>>

Next ==
    \/ Load
    \/ Export
    \/ RemoveExisting
    \/ MakeParent
    \/ MoveExport
    \/ SumStep
    \/ Report
    \/ Invoke

Spec == Init /\ [][Next]_vars

(***************************************************************************)
(* Properties                                                              *)
(***************************************************************************)
Out == cfg.out

Exp == ExportDir(cfg.model)

Steps == {trace[i].step : i \in DOMAIN trace}

RegularFiles(f, at) == {q \in StrictlyUnder(f, at) : f[q].kind = "file"}

Links(f, at) == {q \in StrictlyUnder(f, at) : f[q].kind = "link"}

\* C1: after a successful run the output directory is a directory holding
\* exactly the tree the exporter produced in this run; nothing of its
\* earlier content is left.
C1_Overwrite ==
    pc = "done" =>
        /\ Out \in DOMAIN fs
        /\ fs[Out] = Dir
        /\ TreeAt(fs, Out) = cfg.fw.tree

C1_Witness ==
    /\ pc = "done"
    /\ run = 1
    /\ \E p \in StrictlyUnder(fs0, Out) : p \notin DOMAIN fs

LoadFailed == trace # << >> /\ trace[1].step = "load" /\ ~trace[1].ok

\* C2: when the load step fails the run is aborted right there: no removal,
\* no parent creation, no move, and the filesystem (the output directory
\* included) is what it was when the run started.
C2_LoadFailureLeavesOutput ==
    LoadFailed =>
        /\ pc = "failed"
        /\ Steps = {"load"}
        /\ fs = fs0

C2_Witness ==
    /\ LoadFailed
    /\ pc = "failed"
    /\ StrictlyUnder(fs, Out) # {}

\* C3: the total computed by a run equals the sum of the sizes of the
\* regular files below the output directory, each counted once.
C3_SizeAccuracy ==
    total # NoTotal => total = SumSizes(fs, RegularFiles(fs, Out))

\* C4: a run that follows a successful run with the same arguments succeeds
\* too and leaves the output directory with the same tree and the same
\* total as the run before it.
C4_Idempotence ==
    (run > 1 /\ prev.ok) =>
        /\ pc # "failed"
        /\ pc = "done" =>
              /\ Restrict(fs, Under(fs, Out)) = prev.tree
              /\ total = prev.total

C4_Witness ==
    /\ run > 1
    /\ prev.ok
    /\ pc = "done"
    /\ StrictlyUnder(fs, Out) # {}

\* C5: after a successful run every directory of the output directory's
\* parent chain exists, the output directory is in place below it, and
\* everything that existed before the run outside the output directory and
\* the framework's export directory is unchanged.
C5_ParentCreation ==
    pc = "done" =>
        /\ \A q \in Prefixes(Out) : q \in DOMAIN fs /\ fs[q].kind = "dir"
        /\ \A p \in DOMAIN fs0 :
              (~IsPrefix(Out, p) /\ ~IsPrefix(Exp, p)) =>
                  (p \in DOMAIN fs /\ fs[p] = fs0[p])

C5_Witness ==
    /\ pc = "done"
    /\ \E q \in Prefixes(Parent(Out)) : q \notin DOMAIN fs0
    /\ <<"resources", "README">> \in DOMAIN fs0

MoveFailedAfterRemoval ==
    /\ trace # << >>
    /\ trace[Len(trace)].step = "move"
    /\ ~trace[Len(trace)].ok
    /\ "rmtree" \in Steps

Rank(s) ==
    CASE s = "load" -> 1
      [] s = "export" -> 2
      [] s = "rmtree" -> 3
      [] s = "mkdir" -> 4
      [] s = "move" -> 5
      [] s = "sum" -> 6
      [] s = "report" -> 7

\* C7: the steps of a run are executed in the order load, export, removal,
\* move, size sum, report; a removal, creation or move happens only after
\* load and export both succeeded, and a failed export leaves the filesystem
\* as it was when the run started.
C7_StepOrdering ==
    /\ \A i, j \in DOMAIN trace : i < j => Rank(trace[i].step) < Rank(trace[j].step)
    /\ Steps \cap {"rmtree", "mkdir", "move", "sum", "report"} # {} =>
          /\ trace[1] = Step("load", TRUE)
          /\ trace[2] = Step("export", TRUE)
    /\ (\E i \in DOMAIN trace : trace[i] = Step("export", FALSE)) => fs = fs0
    /\ pc = "done" => {"load", "export", "mkdir", "move", "sum", "report"} \subseteq Steps

C7_Witness ==
    /\ pc = "done"
    /\ Len(trace) = 7

\* C8: when the exported tree holds a symbolic link, the total is the sum
\* of the sizes of the regular files only.
C8_LinksExcluded ==
    (total # NoTotal /\ Links(fs, Out) # {}) =>
        total = SumSizes(fs, RegularFiles(fs, Out))

\* nothing on the way to at is a file or a symbolic link
Unobstructed(f, at) == \A q \in Prefixes(at) : q \in DOMAIN f => f[q].kind = "dir"

\* C9: a run whose load and export succeed, the export directory having the
\* conventional name, and that meets no obstacle on the filesystem ends
\* successfully with the freshly exported tree at the output directory.
C9_ExportSurvives ==
    ( /\ pc \in {"done", "failed"}
      /\ cfg.fw.loadOk
      /\ cfg.fw.exportOk
      /\ cfg.fw.dirName = WebModelName(cfg.model)
      /\ Unobstructed(fs0, Out) ) =>
        /\ pc = "done"
        /\ TreeAt(fs, Out) = cfg.fw.tree

\* C10: after a successful run with an output directory other than the
\* export directory, the export directory <model>_web_model is gone and every
\* node it held is at the same relative path directly below the output
\* directory.
C10_MovedNotCopied ==
    (pc = "done" /\ Out # Exp) =>
        /\ Under(fs, Exp) = {}
        /\ held # NoTree
        /\ \A q \in DOMAIN held :
              (Out \o q) \in DOMAIN fs /\ fs[Out \o q] = held[q]

C10_Witness ==
    /\ pc = "done"
    /\ cfg.xdev
    /\ StrictlyUnder(fs0, Out) # {}
    /\ Exp \notin DOMAIN fs

====
